---- MODULE Spec2Model ----
(***************************************************************************)
(* A model of the tile-grid platformer in src/src/main.rs: the map parser  *)
(* (Game::read_definition), the Playground accessors, the key handler, the *)
(* renderer and the game loop of main().                                   *)
(*                                                                         *)
(* Integer encoding.  usize and u32 values are carried as their signed     *)
(* residues: a small non-negative integer stands for itself, and -k (k     *)
(* small) stands for 2^64 - k as a usize and for 2^32 - k as a u32.  The   *)
(* only way the program produces a huge value is by wrapping below zero,   *)
(* so every value it can reach within the bounds has such a residue.       *)
(***************************************************************************)
EXTENDS Integers, Sequences, FiniteSets, TLC

VARIABLES
    map_file,         \* map.txt: [readable, text], text a sequence of chars
    overflow_checks,  \* build profile: TRUE = arithmetic overflow panics
    pc,               \* position of main(): start, while, poll, render,
                      \* sleep, exited, panic
    running,          \* main's `running` flag
    game,             \* <<>> before Game::new() returns, else <<Game>>
    polled,           \* events delivered by poll_iter in the current tick
    frame,            \* canvas calls of the last frame, in order
    renders,          \* number of calls of game.render
    sleeps,           \* number of end-of-tick sleeps
    call              \* <<>> or <<[fn, args, result]>>: last accessor call

vars == <<map_file, overflow_checks, pc, running, game, polled, frame,
          renders, sleeps, call>>

-----------------------------------------------------------------------------
(* Bounds of the model *)

MaxLen == 2

MaxTicks == 2

MaxEvents == 2

MaxPx == 3

MaxCoord == 4

(* Program constants *)

WINDOW_HEIGHT == 600

WINDOW_WIDTH == 800

NL == "\n"

\* The characters a map text is drawn from: the four map symbols, the row
\* terminator and one character the parser does not recognise.
Chars == {"_", "%", "|", "@", NL, "x"}

\* The example map of the specification: "||||\n|@_|\n||||\n"
ExampleMap ==
    <<"|", "|", "|", "|", NL, "|", "@", "_", "|", NL, "|", "|", "|", "|", NL>>

MapTexts == (UNION {[1..n -> Chars] : n \in 0..MaxLen}) \cup {ExampleMap}

MapFiles ==
    {[readable |-> TRUE, text |-> t] : t \in MapTexts}
        \cup {[readable |-> FALSE, text |-> <<>>]}

-----------------------------------------------------------------------------
(* Blocks and colours *)

compose_color(r, g, b) == ((r * 256) + g) * 256 + b

split_rgb(color) ==
    <<(color \div 65536) % 256, (color \div 256) % 256, color % 256>>

EMPTY == [kind |-> "EMPTY", color |-> <<>>]

WALL(c) == [kind |-> "WALL", color |-> <<c>>]

FLOOR(c) == [kind |-> "FLOOR", color |-> <<c>>]

BLACK == <<0, 0, 0>>

GREEN == <<0, 255, 0>>

-----------------------------------------------------------------------------
(* Game::read_definition *)

\* One iteration of the loop over contents.chars().
ScanChar(st, code) ==
    LET block == CASE code = "_" -> <<EMPTY>>
                   [] code = "%" -> <<FLOOR(compose_color(255, 0, 0))>>
                   [] code = "|" -> <<WALL(compose_color(0, 0, 255))>>
                   [] code = "@" -> <<FLOOR(compose_color(255, 0, 0))>>
                   [] OTHER -> <<>>
    IN  [width |-> IF code = NL /\ st.count_width THEN st.index ELSE st.width,
         count_width |-> IF code = NL THEN FALSE ELSE st.count_width,
         player_index |-> IF code = "@" THEN st.index ELSE st.player_index,
         index |-> st.index + 1,
         schema |-> st.schema \o block]

RECURSIVE Scan(_, _)
Scan(st, contents) ==
    IF contents = <<>> THEN st
    ELSE Scan(ScanChar(st, Head(contents)), Tail(contents))

ScanStart ==
    [width |-> 0, index |-> 0, schema |-> <<>>, count_width |-> TRUE,
     player_index |-> 0]

Playground_new(schema, height, width) ==
    [schema |-> schema, height |-> height, width |-> width]

\* A variant that guards the divisions: with no width recorded it yields a
\* grid of height 0 and a Player at the origin instead of panicking.
read_definition_defaulting(file) ==
    IF ~file.readable THEN [status |-> "panic", value |-> <<>>]
    ELSE LET st == Scan(ScanStart, file.text)
             height == IF st.width = 0 THEN 0 ELSE st.index \div st.width
             playground == Playground_new(st.schema, height, st.width)
         IN  [status |-> "ok",
              value |-> <<[player |->
                             [position_y |->
                                  IF height = 0 THEN 0
                                  ELSE st.player_index \div height,
                              position_x |->
                                  IF st.width = 0 THEN 0
                                  ELSE st.player_index \div st.width],
                           playground |-> playground]>>]

\* The result of Game::read_definition: a panic, or the (Player, Playground).
read_definition(file) ==
    IF ~file.readable THEN [status |-> "panic", value |-> <<>>]
    ELSE LET st == Scan(ScanStart, file.text) IN
         IF st.width = 0 THEN [status |-> "panic", value |-> <<>>]
         ELSE LET playground ==
                      Playground_new(st.schema, st.index \div st.width, st.width)
              IN  IF playground.height = 0
                  THEN [status |-> "panic", value |-> <<>>]
                  ELSE [status |-> "ok",
                        value |-> <<[player |->
                                       [position_y |->
                                            st.player_index \div playground.height,
                                        position_x |->
                                            st.player_index \div st.width],
                                     playground |-> playground]>>]

-----------------------------------------------------------------------------
(* Integer arithmetic of the build *)

\* `v as u32` and `v as i32`: truncation to 32 bits and reinterpretation as
\* signed both keep the signed residue of a value (see the encoding above).
as_u32(v) == v

as_i32(v) == v

\* a * b on u32, b a small non-negative value: the product leaves the u32
\* range exactly when a stands for 2^32 - k and b >= 2.
mul_u32(a, b) == [overflow |-> a < 0 /\ b >= 2, value |-> a * b]

\* a + b on u32, b a small non-negative value: the sum leaves the u32 range
\* exactly when a stands for 2^32 - k and b >= k.
add_u32(a, b) == [overflow |-> a < 0 /\ a + b >= 0, value |-> a + b]

\* a + 1 and a - 1 on usize.
add_usize(a, b) == [overflow |-> a < 0 /\ a + b >= 0, value |-> a + b]

sub_usize(a, b) == [overflow |-> a >= 0 /\ a < b, value |-> a - b]

-----------------------------------------------------------------------------
(* Game::handle_key_press *)

Keycodes == {"Escape", "A", "D", "Space", "W"}

\* The Player after the key, or a panic when the build checks overflow.
handle_key_press(player, keycode, checks) ==
    LET r == CASE keycode = "A" -> add_usize(player.position_x, 1)
               [] keycode = "D" -> sub_usize(player.position_x, 1)
               [] keycode = "Space" -> add_usize(player.position_y, 1)
               [] OTHER -> [overflow |-> FALSE, value |-> 0]
    IN  IF r.overflow /\ checks THEN [status |-> "panic", value |-> <<>>]
        ELSE [status |-> "ok",
              value |-> <<CASE keycode \in {"A", "D"} ->
                                 [player EXCEPT !.position_x = r.value]
                            [] keycode = "Space" ->
                                 [player EXCEPT !.position_y = r.value]
                            [] OTHER -> player>>]

-----------------------------------------------------------------------------
(* Playground *)

\* &self.schema[y * self.width + x]: the slice index panics when it is not
\* below the length of schema.  `index` is the zero-based index read.
block_at(playground, x, y) ==
    LET i == y * playground.width + x IN
    IF i >= Len(playground.schema)
    THEN [status |-> "panic", index |-> i, value |-> <<>>]
    ELSE [status |-> "ok", index |-> i, value |-> <<playground.schema[i + 1]>>]

\* A variant that divides each pixel size by the other grid dimension.
scale_factor_swapped(playground, size) ==
    IF as_u32(playground.width) = 0 \/ as_u32(playground.height) = 0
    THEN [status |-> "panic", value |-> <<>>]
    ELSE LET dh == size[1] \div as_u32(playground.height)
             dw == size[2] \div as_u32(playground.width)
         IN  [status |-> "ok", value |-> <<dh, dw>>]

scale_factor(playground, size) ==
    IF as_u32(playground.width) = 0 \/ as_u32(playground.height) = 0
    THEN [status |-> "panic", value |-> <<>>]
    ELSE LET dh == size[1] \div as_u32(playground.width)
             dw == size[2] \div as_u32(playground.height)
         IN  [status |-> "ok", value |-> <<dh, dw>>]

-----------------------------------------------------------------------------
(* Rendering: the canvas calls made, in order *)

Rect_new(x, y, w, h) == <<x, y, w, h>>

CanvasRect(color, rect) ==
    <<[op |-> "fill_rect", color |-> color, rect |-> rect],
      [op |-> "draw_rect", color |-> color, rect |-> rect]>>

\* The body of the two nested loops for cell (x, y).
RenderCell(playground, x, y, scale) ==
    LET b == block_at(playground, x, y) IN
    IF b.status = "panic" THEN [status |-> "panic", calls |-> <<>>]
    ELSE LET block == b.value[1] IN
         IF block.kind \in {"WALL", "FLOOR"}
         THEN [status |-> "ok",
               calls |-> CanvasRect(
                   split_rgb(block.color[1]),
                   Rect_new(as_i32(mul_u32(as_u32(x), scale[1]).value),
                            as_i32(mul_u32(as_u32(y), scale[2]).value),
                            scale[1], scale[2]))]
         ELSE [status |-> "ok", calls |-> <<>>]

\* Cells n, n+1, ... of the row-major order `for y in 0..height, for x in
\* 0..width`, after the canvas calls `calls`; the first panic ends the loops.
RECURSIVE RenderCells(_, _, _, _)
RenderCells(playground, n, scale, calls) ==
    IF n >= playground.height * playground.width
    THEN [status |-> "ok", calls |-> calls]
    ELSE LET c == RenderCell(playground, n % playground.width,
                             n \div playground.width, scale)
         IN  IF c.status = "panic" THEN [status |-> "panic", calls |-> calls]
             ELSE RenderCells(playground, n + 1, scale, calls \o c.calls)

render_playground(playground, scale) == RenderCells(playground, 0, scale, <<>>)

render_player(player, scale, checks) ==
    LET px == mul_u32(as_u32(player.position_x), scale[1])
        py == mul_u32(as_u32(player.position_y), scale[2])
        pyo == add_u32(py.value, scale[2])
    IN  IF checks /\ (px.overflow \/ py.overflow \/ pyo.overflow)
        THEN [status |-> "panic", calls |-> <<>>]
        ELSE [status |-> "ok",
              calls |-> CanvasRect(GREEN,
                                   Rect_new(as_i32(px.value), as_i32(pyo.value),
                                            scale[1], scale[2]))]

render(g, size, checks) ==
    LET sf == scale_factor(g.playground, size) IN
    IF sf.status = "panic" THEN [status |-> "panic", calls |-> <<>>]
    ELSE LET pg == render_playground(g.playground, sf.value) IN
         IF pg.status = "panic" THEN pg
         ELSE LET pl == render_player(g.player, sf.value, checks)
              IN  [status |-> pl.status, calls |-> pg.calls \o pl.calls]

-----------------------------------------------------------------------------
(* main *)

\* The events poll_iter can deliver: a quit, a key press (keycode <<>> is
\* None) and any other event.
Events ==
    {[type |-> "Quit", keycode |-> <<>>], [type |-> "Other", keycode |-> <<>>],
     [type |-> "KeyDown", keycode |-> <<>>]}
        \cup {[type |-> "KeyDown", keycode |-> <<k>>] : k \in Keycodes}

\* The sizes canvas.output_size() can report.
SurfaceSizes == {<<MaxPx, MaxPx>>, <<WINDOW_WIDTH, WINDOW_HEIGHT>>}

Init ==
    /\ map_file \in MapFiles
    /\ overflow_checks \in BOOLEAN
    /\ pc = "start"
    /\ running = TRUE
    /\ game = <<>>
    /\ polled = 0
    /\ frame = <<>>
    /\ renders = 0
    /\ sleeps = 0
    /\ call = <<>>

\* let mut game = Game::new();
GameNew ==
    /\ pc = "start"
    /\ LET d == read_definition(map_file) IN
       IF d.status = "panic"
       THEN pc' = "panic" /\ game' = game
       ELSE pc' = "while" /\ game' = d.value
    /\ UNCHANGED <<map_file, overflow_checks, running, polled, frame, renders,
                   sleeps, call>>

\* A variant of the loop test that ignores the flag (`loop { ... }`).
WhileCheck_ignores_running ==
    /\ pc = "while"
    /\ sleeps < MaxTicks /\ pc' = "poll" /\ polled' = 0
    /\ UNCHANGED <<map_file, overflow_checks, running, game, frame, renders,
                   sleeps, call>>

\* while running { ... }: the test at the top of the loop.
WhileCheck ==
    /\ pc = "while"
    /\ IF running
       THEN sleeps < MaxTicks /\ pc' = "poll" /\ polled' = 0
       ELSE pc' = "exited" /\ polled' = polled
    /\ UNCHANGED <<map_file, overflow_checks, running, game, frame, renders,
                   sleeps, call>>

\* One iteration of `for event in events.poll_iter()`.
PollEvent(event) ==
    /\ pc = "poll"
    /\ polled < MaxEvents
    /\ polled' = polled + 1
    /\ IF event.type = "Quit" \/ (event.type = "KeyDown" /\ event.keycode = <<"Escape">>)
       THEN running' = FALSE /\ UNCHANGED <<pc, game>>
       ELSE IF event.type = "KeyDown" /\ event.keycode # <<>>
       THEN LET r == handle_key_press(game[1].player, event.keycode[1],
                                       overflow_checks)
            IN  /\ running' = running
                /\ IF r.status = "panic"
                   THEN pc' = "panic" /\ game' = game
                   ELSE pc' = pc
                        /\ game' = <<[game[1] EXCEPT !.player = r.value[1]]>>
       ELSE UNCHANGED <<pc, running, game>>
    /\ UNCHANGED <<map_file, overflow_checks, frame, renders, sleeps, call>>

\* poll_iter is exhausted; game.tick() does nothing.
PollDone ==
    /\ pc = "poll"
    /\ pc' = "render"
    /\ UNCHANGED <<map_file, overflow_checks, running, game, polled, frame,
                   renders, sleeps, call>>

\* set_draw_color(BLACK); clear(); game.render(&mut canvas); present();
Render(size) ==
    /\ pc = "render"
    /\ renders' = renders + 1
    /\ LET r == render(game[1], size, overflow_checks)
           clear == <<[op |-> "clear", color |-> BLACK, rect |-> <<>>]>>
           present == <<[op |-> "present", color |-> <<>>, rect |-> <<>>]>>
       IN  IF r.status = "panic"
           THEN pc' = "panic" /\ frame' = clear \o r.calls
           ELSE pc' = "sleep" /\ frame' = clear \o r.calls \o present
    /\ UNCHANGED <<map_file, overflow_checks, running, game, polled, sleeps,
                   call>>

\* std::thread::sleep(1000 / 60 ms), then back to the top of the loop.
Sleep ==
    /\ pc = "sleep"
    /\ sleeps' = sleeps + 1
    /\ pc' = "while"
    /\ UNCHANGED <<map_file, overflow_checks, running, game, polled, frame,
                   renders, call>>

Next ==
    \/ GameNew
    \/ WhileCheck
    \/ \E event \in Events : PollEvent(event)
    \/ PollDone
    \/ \E size \in SurfaceSizes : Render(size)
    \/ Sleep

Spec == Init /\ [][Next]_vars

\* The loop is one thread and none of its steps blocks for good: the loop
\* test, the end of poll_iter and the sleep each happen once they are due,
\* and a frame that has been started is finished (game.render returns or
\* panics).  Render is enabled exactly when pc = "render" and every Render
\* step leaves that position, so the last conjunct is WF_vars(\E size \in
\* SurfaceSizes : Render(size)) written without ENABLED.  No event is ever
\* required to arrive.
FairSpec ==
    /\ Spec
    /\ WF_vars(WhileCheck)
    /\ WF_vars(PollDone)
    /\ WF_vars(Sleep)
    /\ []<>(pc # "render")

-----------------------------------------------------------------------------
(* The Playground accessors called on their own, with any arguments *)

Coordinates == 0..MaxCoord

PixelSizes ==
    (0..MaxPx \cup {WINDOW_WIDTH}) \X (0..MaxPx \cup {WINDOW_HEIGHT})

CallBlockAt(x, y) ==
    /\ game # <<>>
    /\ call' = <<[fn |-> "block_at", args |-> <<x, y>>,
                  result |-> block_at(game[1].playground, x, y)]>>
    /\ UNCHANGED <<map_file, overflow_checks, pc, running, game, polled, frame,
                   renders, sleeps>>

CallScaleFactor(size) ==
    /\ game # <<>>
    /\ call' = <<[fn |-> "scale_factor", args |-> size,
                  result |-> scale_factor(game[1].playground, size)]>>
    /\ UNCHANGED <<map_file, overflow_checks, pc, running, game, polled, frame,
                   renders, sleeps>>

NextApi ==
    \/ GameNew
    \/ \E x \in Coordinates, y \in Coordinates : CallBlockAt(x, y)
    \/ \E size \in PixelSizes : CallScaleFactor(size)

SpecApi == Init /\ [][NextApi]_vars

-----------------------------------------------------------------------------
(* What a map text says, read row by row *)

MapSymbols == {"_", "%", "|", "@"}

\* 1-based position of the first row terminator, 0 when there is none.
FirstNL(text) ==
    IF \E i \in 1..Len(text) : text[i] = NL
    THEN CHOOSE i \in 1..Len(text) :
             text[i] = NL /\ \A j \in 1..(i - 1) : text[j] # NL
    ELSE 0

RowWidth(text) == FirstNL(text) - 1

\* h >= 1 rows of w >= 1 map symbols, each row ended by a newline.
IsRectMap(text) ==
    /\ FirstNL(text) > 1
    /\ Len(text) % FirstNL(text) = 0
    /\ \A i \in 1..Len(text) :
           IF i % FirstNL(text) = 0 THEN text[i] = NL ELSE text[i] \in MapSymbols

RowCount(text) == Len(text) \div FirstNL(text)

SpawnMarks(text) == {i \in 1..Len(text) : text[i] = "@"}

Loaded == game # <<>>

PlaygroundOf == game[1].playground

PlayerOf == game[1].player

-----------------------------------------------------------------------------
(* Claims *)

\* C1: every valid rectangular map text of h rows of w symbols loads into a
\* Playground with width = w, height = h and tiles.len() = width * height.
C1_RectMapTileCount ==
    (map_file.readable /\ IsRectMap(map_file.text) /\ pc # "start") =>
        /\ Loaded
        /\ PlaygroundOf.width = RowWidth(map_file.text)
        /\ PlaygroundOf.height = RowCount(map_file.text)
        /\ Len(PlaygroundOf.schema) = PlaygroundOf.width * PlaygroundOf.height

\* C2: for a valid rectangular map text with one '@', the spawn coordinate
\* is the (column, row) of the '@' cell, inside [0,width) x [0,height); the
\* example map gives width 4, height 3 and spawn (1, 1).
C2_SpawnIsMarkerCell ==
    (/\ map_file.readable
     /\ IsRectMap(map_file.text)
     /\ Cardinality(SpawnMarks(map_file.text)) = 1
     /\ pc = "while" /\ sleeps = 0) =>
        LET i == CHOOSE k \in SpawnMarks(map_file.text) : TRUE
            col == (i - 1) % FirstNL(map_file.text)
            row == (i - 1) \div FirstNL(map_file.text)
        IN  /\ Loaded
            /\ PlayerOf.position_x = col
            /\ PlayerOf.position_y = row
            /\ PlayerOf.position_x < PlaygroundOf.width
            /\ PlayerOf.position_y < PlaygroundOf.height
            /\ (map_file.text = ExampleMap =>
                    /\ PlaygroundOf.width = 4
                    /\ PlaygroundOf.height = 3
                    /\ PlayerOf.position_x = 1
                    /\ PlayerOf.position_y = 1)

\* C3: block_at(x, y) fails whenever x >= width or y >= height; it never
\* returns the tile of another cell for an out-of-range column.
C3_BlockAtOutOfRangeFails ==
    (/\ call # <<>>
     /\ call[1].fn = "block_at"
     /\ \/ call[1].args[1] >= PlaygroundOf.width
        \/ call[1].args[2] >= PlaygroundOf.height) =>
        call[1].result.status = "panic"

\* C4: with width > 0 and height > 0, scale_factor((W, H)) is exactly
\* (W / width, H / height) by truncating division, a function of W, H, width
\* and height alone, with a zero component (no error) when W < width or
\* H < height.
C4_ScaleFactorIsQuotient ==
    (/\ call # <<>>
     /\ call[1].fn = "scale_factor"
     /\ PlaygroundOf.width > 0
     /\ PlaygroundOf.height > 0) =>
        LET W == call[1].args[1]
            H == call[1].args[2]
        IN  /\ call[1].result.status = "ok"
            /\ call[1].result.value =
                   <<W \div PlaygroundOf.width, H \div PlaygroundOf.height>>
            /\ (W < PlaygroundOf.width => call[1].result.value[1] = 0)
            /\ (H < PlaygroundOf.height => call[1].result.value[2] = 0)

\* A scale_factor call on a grid wider than the surface: the width component
\* truncated to zero while the height component did not.
C4_Witness ==
    /\ call # <<>>
    /\ call[1].fn = "scale_factor"
    /\ call[1].args[1] > 0
    /\ call[1].args[1] < PlaygroundOf.width
    /\ call[1].args[2] > PlaygroundOf.height
    /\ call[1].result.status = "ok"
    /\ call[1].result.value[1] = 0
    /\ call[1].result.value[2] > 0

\* The draw commands the claim C5 describes for grid cells n, n+1, ... at
\* scale (sx, sy).
RECURSIVE ExpectedTiles(_, _, _, _)
ExpectedTiles(pg, n, sx, sy) ==
    IF n >= pg.width * pg.height \/ n >= Len(pg.schema) THEN <<>>
    ELSE LET x == n % pg.width
             y == n \div pg.width
             tile == pg.schema[n + 1]
         IN  (IF tile.kind = "EMPTY" THEN <<>>
              ELSE CanvasRect(split_rgb(tile.color[1]),
                              <<x * sx, y * sy, sx, sy>>))
             \o ExpectedTiles(pg, n + 1, sx, sy)

\* C5: a rendered frame holds, in row-major order, one filled+outlined
\* rectangle at (x*sx, y*sy, sx, sy) per non-Empty tile and no command for an
\* Empty one, followed last by exactly one player rectangle at
\* (px*sx, py*sy, sx, sy).
C5_FrameCommands ==
    (pc = "sleep") =>
        LET last == frame[Len(frame) - 1]
            sx == last.rect[3]
            sy == last.rect[4]
        IN  SubSeq(frame, 2, Len(frame) - 1) =
                ExpectedTiles(PlaygroundOf, 0, sx, sy)
                    \o CanvasRect(GREEN,
                                  <<PlayerOf.position_x * sx,
                                    PlayerOf.position_y * sy, sx, sy>>)

Cardinal == {<<-1, 0>>, <<1, 0>>, <<0, -1>>, <<0, 1>>}

\* The displacement a key produces from player p, <<>> when the call panics.
KeyOffset(p, k) ==
    LET r == handle_key_press(p, k, overflow_checks) IN
    IF r.status = "panic" THEN <<>>
    ELSE <<r.value[1].position_x - p.position_x,
           r.value[1].position_y - p.position_y>>

\* C6: from any Player, every key either leaves the Player unchanged (an
\* unrecognised key) or displaces it by one tile along one axis, and the
\* keys that move it cover the four cardinal offsets, (-1, 0) among them.
C6_KeysCoverCardinals ==
    (Loaded /\ pc = "poll") =>
        LET offsets == {KeyOffset(PlayerOf, k) : k \in Keycodes \ {"Escape"}}
        IN  /\ offsets \subseteq Cardinal \cup {<<0, 0>>}
            /\ Cardinal \subseteq offsets

\* C7: once a quit event or an escape key has set running to false, the
\* same tick performs no render and no end-of-tick sleep.
C7_NoRenderOrSleepAfterStop ==
    [][~running => (renders' = renders /\ sleeps' = sleeps)]_vars

\* C8: after a successful map load the program never panics, whatever keys
\* are pressed and whatever size the surface reports.
C8_NoPanicAfterLoad == Loaded => pc # "panic"

NoRows(text) == \A i \in 1..Len(text) : text[i] # NL

\* C9: a readable map text that is empty or has no row terminator makes
\* Game::new fail: no Game exists, and the loop is never entered (nothing
\* is polled, rendered or slept).
C9_NoRowsIsAnError ==
    (map_file.readable /\ NoRows(map_file.text) /\ pc # "start") =>
        /\ pc = "panic"
        /\ ~Loaded
        /\ polled = 0 /\ renders = 0 /\ sleeps = 0 /\ frame = <<>>

\* Game::new has run on an empty map text and panicked.
C9_Witness ==
    /\ map_file.readable
    /\ map_file.text = <<>>
    /\ pc = "panic"
    /\ ~Loaded

====
